---- MODULE Spec2Model ----
(***************************************************************************)
(* Model of the openpath-pipeline classification-and-aggregation core:     *)
(*   - the row classifier standard_convert_to_result and its negative      *)
(*     cache NO_REF_RANGES (data_sources/lib/intermediate_file_processing) *)
(*   - the processing ledger (data_sources/lib/intermediate_file_tracking) *)
(*   - process_files and combine_and_append_csvs (lib/file_processing,     *)
(*     lib/whole_file_processing).                                         *)
(*                                                                         *)
(* Conventions.  A CSV cell is a sequence: <<>> is the empty string, <<n>> *)
(* a cell holding the number n.  A test result is a record: float says     *)
(* whether normalise_data managed to convert it, and the value is          *)
(* base + eps * 1e-7 (eps is -1 for "<X", +1 for ">X", 0 otherwise).  Ages *)
(* are counted in half years, so that the truncation int(float(cell)) of   *)
(* an age-band cell is visible.  A raised Python exception is the field    *)
(* raised of an outcome ("" when none was raised).                         *)
(***************************************************************************)
EXTENDS Integers, Sequences, FiniteSets, TLC

VARIABLES
    \* ---- classifier (one Python process) ----
    NO_REF_RANGES,   \* module-level cache of test codes without ranges
    ranges,          \* reference ranges of the lab being processed
    row,             \* the row handed to standard_convert_to_result
    outcome,         \* what the last call did: exception and result_category
    phase,           \* "ready" | "classified" | "reclassified"
    \* ---- persistent state of the pipeline ----
    ledger,          \* rows of the table `processed`
    intermediate,    \* converted files in INTERMEDIATE_DIR: name -> rows
    combined,        \* per lab, the file combined_<lab>.csv
    \* ---- one invocation of process_files or of the closing merge ----
    pc,              \* position of the main process
    run,             \* the call's arguments
    tasks,           \* make_intermediate_file invocations of the call
    unmerged_filenames,  \* what is left of the list of line 54
    merged,          \* the dataframe `merged` of combine_and_append_csvs
    written,         \* to_csv of line 100 has returned in this call
    \* ---- history ----
    lastCall,        \* the last call that ended and its exception
    failed,          \* per lab, source files whose last conversion failed
    audit,           \* rows written per source file, and rows merged per lab
    \* ---- one call of normalise_and_suppress ----
    mergedFrame,     \* the argument merged: rows counted per group
    codeMapping,     \* what _get_test_codes returns for the lab
    processedFile,   \* the file processed_<lab>.csv
    stage,           \* "input" | "done"
    \* ---- the loop over the raw rows of one make_intermediate_file ----
    raw_rows,        \* what row_iterator(filename) yields
    row_index,       \* the row at hand, counted from 1 (i + 1)
    loop_pc,         \* position in the loop and after it
    invoked,         \* history: the calls of the stages, <<row, stage>>
    outfile,         \* the data rows written so far, by their index
    escaped          \* the exception that left make_intermediate_file

classifierVars == <<NO_REF_RANGES, ranges, row, outcome, phase>>

pipelineVars ==
    <<ledger, intermediate, combined, pc, run, tasks, unmerged_filenames,
      merged, written, lastCall, failed, audit>>

suppressVars == <<mergedFrame, codeMapping, processedFile, stage>>

loopVars == <<raw_rows, row_index, loop_pc, invoked, outfile, escaped>>

\* What an action of one part of the model leaves alone.
outsidePipeline == <<classifierVars, suppressVars, loopVars>>

outsideClassifier == <<pipelineVars, suppressVars, loopVars>>

outsideSuppress == <<classifierVars, pipelineVars, loopVars>>

outsideLoop == <<classifierVars, pipelineVars, suppressVars>>

vars == <<classifierVars, pipelineVars, suppressVars, loopVars>>

-----------------------------------------------------------------------------
(* settings.py                                                             *)

RANGE_CEILING == 99999

WITHIN_RANGE == 0
UNDER_RANGE == -1
OVER_RANGE == 1
ERR_NO_REF_RANGE == 2
ERR_UNPARSEABLE_RESULT == 3
ERR_INVALID_SEX == 4
ERR_INVALID_RANGE_WITH_DIRECTION == 5
ERR_DISCARDED_AGE == 6
ERR_INVALID_REF_RANGE == 7

\* The result-category enumeration (settings._result_dtype).
ResultCategories ==
    { WITHIN_RANGE, UNDER_RANGE, OVER_RANGE, ERR_NO_REF_RANGE,
      ERR_UNPARSEABLE_RESULT, ERR_INVALID_SEX,
      ERR_INVALID_RANGE_WITH_DIRECTION, ERR_DISCARDED_AGE,
      ERR_INVALID_REF_RANGE }

-----------------------------------------------------------------------------
(* Bounded inputs of the classifier.                                       *)

\* Longest reference-range list.
MaxRanges == 2

TestCodes == {1, 2}

\* (low, high) cells of one sex.
BoundPairs == << <<0, 20>>, <<10, 20>>, <<10, RANGE_CEILING>>, <<10>> >>

Cell(pair, i) == IF i <= Len(pair) THEN <<pair[i]>> ELSE <<>>

\* Age bands as written in the CSV, in half years: "0".."18.5" and
\* "18.5".."120".
AgeBands == { <<0, 37>>, <<37, 240>> }

\* One row of the reference-range CSV.  The F cells use the next pair of
\* BoundPairs, so that the two sexes of an entry never share their bounds.
RefRange(test, band, k) ==
    [ test |-> test,
      min_adult_age |-> band[1], max_adult_age |-> band[2],
      low_M |-> Cell(BoundPairs[k], 1), high_M |-> Cell(BoundPairs[k], 2),
      low_F |-> Cell(BoundPairs[(k % Len(BoundPairs)) + 1], 1),
      high_F |-> Cell(BoundPairs[(k % Len(BoundPairs)) + 1], 2) ]

RefRanges ==
    { RefRange(t, b, k) : t \in TestCodes, b \in AgeBands,
                          k \in 1..Len(BoundPairs) }

\* get_ref_ranges sorts the list by test.
IsSortedByTest(s) == \A i \in 1..(Len(s) - 1) : s[i].test <= s[i + 1].test

SeqsUpTo(S, n) == UNION { [1..k -> S] : k \in 0..n }

Tables == { s \in SeqsUpTo(RefRanges, MaxRanges) : IsSortedByTest(s) }

Float(b, e) == [float |-> TRUE, base |-> b, eps |-> e]
Unparsed == [float |-> FALSE, base |-> 0, eps |-> 0]

TestResults ==
    { Unparsed, Float(5, 0), Float(15, 0), Float(20, -1), Float(21, 0),
      Float(25, 0) }

Sexes == {"M", "F", "U"}
Directions == {"", "<", ">"}
\* 17.5, 18 and 18.5 years.
Ages == {35, 36, 37}

Rows ==
    [ test_code : TestCodes, test_result : TestResults, sex : Sexes,
      age : Ages, direction : Directions ]

-----------------------------------------------------------------------------
(* logger.py                                                               *)

\* Python types of the values handed to the logging helpers.
PyDict == "dict"
PyStr == "str"
PyFloat == "float"

\* log(row, level, msg, *args): `msg + " %s "` needs msg to be a str;
\* json.dumps(row) takes a dict as well as a str.  Returns the exception.
log(rowType, level, msgType) ==
    IF msgType = PyStr THEN "" ELSE "TypeError"

log_warning(rowType, msgType) == log(rowType, "warning", msgType)

log_info(rowType, msgType) == log(rowType, "info", msgType)

-----------------------------------------------------------------------------
(* intermediate_file_processing.standard_convert_to_result                 *)

Present(cell) == cell # <<>>

\* int(float(cell)) of an age cell, in whole years.
IntOfFloat(halfYears) == halfYears \div 2

\* age >= int(float(min_adult_age)) and age < int(float(max_adult_age))
AgeInBand(age, ref_range) ==
    /\ age >= 2 * IntOfFloat(ref_range.min_adult_age)
    /\ age < 2 * IntOfFloat(ref_range.max_adult_age)

\* result > bound and result < bound for a float result.
GreaterThan(result, bound) ==
    \/ result.base > bound
    \/ result.base = bound /\ result.eps > 0

LessThan(result, bound) ==
    \/ result.base < bound
    \/ result.base = bound /\ result.eps < 0

Return(code) == [raised |-> "", result_category |-> <<code>>]
Raise(exc) == [raised |-> exc, result_category |-> <<>>]

\* A branch that logs and then breaks with return_code.
LogThen(logged, code) == IF logged = "" THEN Return(code) ELSE Raise(logged)

\* Variant: a comparison that does not look at the direction.
CompareToBounds_nodirection(r, low, high) ==
    IF Present(low) /\ Present(high)
    THEN IF GreaterThan(r.test_result, high[1]) THEN Return(OVER_RANGE)
         ELSE IF LessThan(r.test_result, low[1]) THEN Return(UNDER_RANGE)
         ELSE Return(WITHIN_RANGE)
    ELSE Return(ERR_INVALID_REF_RANGE)

\* Lines 116-158: the comparison against the selected bounds.
CompareToBounds(r, low, high) ==
    IF Present(low) /\ Present(high)
    THEN IF GreaterThan(r.test_result, high[1])
         THEN IF r.direction = "<"
              THEN LogThen(log_warning(PyDict, PyStr),
                           ERR_INVALID_RANGE_WITH_DIRECTION)
              ELSE LogThen(log_info(PyDict, PyStr), OVER_RANGE)
         ELSE IF LessThan(r.test_result, low[1])
         THEN IF r.direction = ">"
              THEN LogThen(log_warning(PyDict, PyStr),
                           ERR_INVALID_RANGE_WITH_DIRECTION)
              ELSE LogThen(log_info(PyDict, PyStr), UNDER_RANGE)
         ELSE IF \/ r.direction = ""
                 \/ r.direction = "<" /\ low[1] = 0
                 \/ r.direction = ">" /\ high[1] = RANGE_CEILING
              THEN LogThen(log_info(PyDict, PyStr), WITHIN_RANGE)
              \* line 146: the row argument is missing, so the message
              \* string is taken as the row and `low` as the message
              ELSE LogThen(log_warning(PyStr, PyFloat),
                           ERR_INVALID_RANGE_WITH_DIRECTION)
    ELSE LogThen(log_warning(PyDict, PyStr), ERR_INVALID_REF_RANGE)

\* Lines 104-115: low and high of the row's sex; <<>> stands for None.
BoundsForSex(sex, ref_range) ==
    IF sex = "M"
    THEN IF Present(ref_range.low_M) /\ Present(ref_range.high_M)
         THEN <<ref_range.low_M, ref_range.high_M>> ELSE << <<>>, <<>> >>
    ELSE IF Present(ref_range.low_F) /\ Present(ref_range.high_F)
         THEN <<ref_range.low_F, ref_range.high_F>> ELSE << <<>>, <<>> >>

\* Variant: every sex other than "M" is given the female bounds.
MatchedEntry_female(r, ref_range) ==
    CompareToBounds(r, BoundsForSex(r.sex, ref_range)[1],
                       BoundsForSex(r.sex, ref_range)[2])

\* An entry whose test is the row's and whose band holds the row's age.
MatchedEntry(r, ref_range) ==
    IF r.sex \notin {"M", "F"}
    THEN LogThen(log_info(PyDict, PyStr), ERR_INVALID_SEX)
    ELSE CompareToBounds(r, BoundsForSex(r.sex, ref_range)[1],
                            BoundsForSex(r.sex, ref_range)[2])

\* The for loop of lines 86-160 from entry i on.  found and return_code
\* are the loop's variables (<<>> is None); last is last_matched_test
\* (0 is None).
RECURSIVE Scan(_, _, _, _, _, _)
Scan(r, refs, i, found, return_code, last) ==
    IF i > Len(refs)
    THEN [found |-> found, raised |-> "", return_code |-> return_code]
    ELSE IF refs[i].test # r.test_code
    THEN Scan(r, refs, i + 1, found, return_code, last)
    ELSE IF ~r.test_result.float
    THEN [found |-> TRUE, raised |-> log_info(PyDict, PyStr),
          return_code |-> <<ERR_UNPARSEABLE_RESULT>>]
    ELSE IF last # 0 /\ last # refs[i].test
    THEN [found |-> TRUE, raised |-> log_info(PyDict, PyStr),
          return_code |-> <<ERR_NO_REF_RANGE>>]
    ELSE IF AgeInBand(r.age, refs[i])
    THEN [found |-> TRUE, raised |-> MatchedEntry(r, refs[i]).raised,
          return_code |-> MatchedEntry(r, refs[i]).result_category]
    ELSE Scan(r, refs, i + 1, TRUE, <<ERR_DISCARDED_AGE>>, refs[i].test)

\* Lines 83-166: the scan and what follows the loop.
ScanRanges(r, refs) ==
    LET s == Scan(r, refs, 1, FALSE, <<>>, 0) IN
    IF s.raised # "" THEN [found |-> TRUE, out |-> Raise(s.raised)]
    ELSE IF ~s.found
    THEN [found |-> FALSE,
          out |-> LogThen(log_info(PyDict, PyStr), ERR_NO_REF_RANGE)]
    ELSE [found |-> TRUE,
          out |-> [raised |-> "", result_category |-> s.return_code]]

\* Line 80: the negative cache is consulted before the scan.
CacheHit(test_code, cache) == test_code \in cache

\* Variant: a classifier that scans every time and caches nothing.
standard_convert_to_result_nocache(r, refs, cache) ==
    [out |-> ScanRanges(r, refs).out, cache |-> cache]

\* standard_convert_to_result(row, ranges) in a process whose NO_REF_RANGES
\* is cache: the outcome and the cache it leaves.
standard_convert_to_result(r, refs, cache) ==
    IF CacheHit(r.test_code, cache)
    THEN [out |-> Return(ERR_NO_REF_RANGE), cache |-> cache]
    ELSE [out |-> ScanRanges(r, refs).out,
          cache |-> IF ScanRanges(r, refs).found THEN cache
                    ELSE cache \cup {r.test_code}]

-----------------------------------------------------------------------------
(* Bounded inputs of the pipeline.                                         *)

\* Most surviving rows of the later month in one source file.
MaxRows == 1

Labs == {"nd", "cornwall"}

\* Source files the operator may hand to process_files, per lab.
InputFiles == [l \in Labs |-> IF l = "nd" THEN {"a.xls", "b.xls"}
                                ELSE {"c.xls"}]

\* Months, in the order of their "%Y/%m/01" strings.
Months == {1, 2}

\* The rows of a dataset, counted per month.
NoRows == [m \in Months |-> 0]

\* Datasets of a source file: up to MaxRows rows of the later month, whose
\* count the merge checks, and at most one row of the earlier month.
Datasets == { d \in [Months -> 0..MaxRows] : d[1] <= 1 }

Total(rows) == rows[1] + rows[2]

Concat(r1, r2) == [m \in Months |-> r1[m] + r2[m]]

\* What the row source of a file yields once the skipped rows are gone:
\* the surviving rows, whether they carry the required keys, and whether
\* all of them come after the first 1000 raw rows (i >= 1000 at line 224).
\* The files of the second lab are either empty or hold one row.
OneRow == [m \in Months |-> IF m = 1 THEN 1 ELSE 0]

FileInput(rows, keys_ok, past_1000) ==
    [rows |-> rows, keys_ok |-> keys_ok, past_1000 |-> past_1000]

FileInputs ==
    [l \in Labs |->
        IF l = "nd"
        THEN { FileInput(d, TRUE, FALSE) : d \in Datasets }
                \cup { FileInput(d, FALSE, FALSE) :
                         d \in { x \in Datasets : Total(x) > 0 } }
                \cup { FileInput(OneRow, TRUE, TRUE) }
        ELSE { FileInput(NoRows, TRUE, FALSE),
               FileInput(OneRow, TRUE, FALSE) }]

\* Final-month row counts of a combined file left by an earlier call.
EarlierCounts == {5, 6}

\* Name of a converted file: "converted_<lab>_<month>[_<dupes>].csv".
ConvertedName(lab, month, dupes) ==
    [lab |-> lab, month |-> month, dupes |-> dupes]

\* The characters of LAB_CODE in the anonymiser_config of a lab.
LabCode ==
    [l \in Labs |-> IF l = "nd" THEN <<"n", "d">>
                    ELSE <<"c", "o", "r", "n", "w", "a", "l", "l">>]

Digits == <<"1", "2", "3", "4", "5", "6", "7", "8", "9">>

\* File names of INTERMEDIATE_DIR as sequences of characters; a word that
\* holds no "_" is written as one character.
\* "converted_<lab>_<YYYY_MM_01>[_<dupes>].csv"
ConvertedPath(name) ==
    <<"converted", "_">> \o LabCode[name.lab]
        \o <<"_", "2019", "_", Digits[name.month], "_", "01">>
        \o (IF name.dupes > 0 THEN <<"_", Digits[name.dupes]>> ELSE <<>>)
        \o <<".csv">>

\* "combined_<lab>.csv"
CombinedPath(lab) == <<"combined", "_">> \o LabCode[lab] \o <<".csv">>

-----------------------------------------------------------------------------
(* intermediate_file_tracking.py                                           *)

\* The unique index idx_lab_filename rejects a second row of (lab, filename).
\* Variant: a table without the unique index idx_lab_filename.
mark_as_processed_noindex(table, lab, filename, converted_filename) ==
    [raised |-> "",
     table |-> table \cup
         { [lab |-> lab, filename |-> filename,
            converted_filename |-> converted_filename,
            merged_at |-> FALSE] }]

\* Variant: an insert that replaces the row of (lab, filename).
mark_as_processed_replace(table, lab, filename, converted_filename) ==
    [raised |-> "",
     table |-> { e \in table : ~(e.lab = lab /\ e.filename = filename) } \cup
         { [lab |-> lab, filename |-> filename,
            converted_filename |-> converted_filename,
            merged_at |-> FALSE] }]

\* The insert is one statement of SQLite, which the unique index
\* idx_lab_filename on (lab, filename) makes fail as a whole.
mark_as_processed(table, lab, filename, converted_filename) ==
    IF \E e \in table : e.lab = lab /\ e.filename = filename
    THEN [raised |-> "IntegrityError", table |-> table]
    ELSE [raised |-> "",
          table |-> table \cup
              { [lab |-> lab, filename |-> filename,
                 converted_filename |-> converted_filename,
                 merged_at |-> FALSE] }]

mark_as_merged(table, lab, converted_filename) ==
    { IF e.lab = lab /\ e.converted_filename = converted_filename
      THEN [e EXCEPT !.merged_at = TRUE] ELSE e : e \in table }

\* reset_lab: delete ... where lab = :lab
reset_lab(table, lab) == { e \in table : e.lab # lab }

\* Variant: a ledger query that never reports a file as seen.
get_processed_filenames_none(table, lab) == {}

get_processed_filenames(table, lab) ==
    { e.filename : e \in { x \in table : x.lab = lab } }

\* Variant: a query that reports no entry as unmerged.
get_unmerged_filenames_none(table, lab) == {}

get_unmerged_filenames(table, lab) ==
    { <<e.filename, e.converted_filename>> :
        e \in { x \in table : x.lab = lab /\ ~x.merged_at } }

-----------------------------------------------------------------------------
(* intermediate_file_processing.make_intermediate_file                     *)

\* Variant: the keys of the first surviving row are not checked.
make_intermediate_rows_unchecked(input) ==
    IF Total(input.rows) = 0 \/ input.past_1000
    THEN [raised |-> "IndexError", rows |-> NoRows]
    ELSE [raised |-> "", rows |-> input.rows]

\* Lines 203-233: the rows written to the temporary file, or the exception:
\* the assert of line 220 on the first surviving row, the IndexError of
\* most_common(1)[0] when no row was counted.
make_intermediate_rows(input) ==
    IF Total(input.rows) = 0 THEN [raised |-> "IndexError", rows |-> NoRows]
    ELSE IF ~input.keys_ok
    THEN [raised |-> "AssertionError", rows |-> NoRows]
    ELSE IF input.past_1000
    THEN [raised |-> "IndexError", rows |-> NoRows]
    ELSE [raised |-> "", rows |-> input.rows]

\* Variant: the exception is swallowed and the file is named and marked.
StatusAfterRows_swallow(exc) == "named"

\* An exception leaves make_intermediate_file; otherwise it goes on to
\* name the file.
StatusAfterRows(exc) == IF exc = "" THEN "named" ELSE "failed"

\* first_dates.most_common(1)[0][0]: a month with the most rows (the first
\* met among equals, which depends on the order of the rows).
MostCommonDates(rows) ==
    { m \in Months : rows[m] > 0 /\ \A n \in Months : rows[n] <= rows[m] }

\* Lines 237-246: the first of base, base_1, base_2, ... that does not
\* exist.
UnusedName(files, lab, month) ==
    LET free == { d \in 0..Cardinality(DOMAIN files) :
                    ConvertedName(lab, month, d) \notin DOMAIN files }
    IN ConvertedName(lab, month,
                     CHOOSE d \in free : \A e \in free : d <= e)

\* os.rename(outfile.name, converted_filepath) replaces an existing file.
Rename(files, name, rows) ==
    [n \in DOMAIN files \cup {name} |->
        IF n = name THEN rows ELSE files[n]]

\* os.remove
Remove(files, name) == [n \in DOMAIN files \ {name} |-> files[n]]

-----------------------------------------------------------------------------
(* whole_file_processing.combine_and_append_csvs                           *)

\* The orders in which the rows of a query may come back.
Orderings(S) ==
    { s \in [1..Cardinality(S) -> S] : \A x \in S : \E i \in DOMAIN s : s[i] = x }

\* combine_csvs_to_dataframe: FileNotFoundError when a file is gone.
RECURSIVE combine_csvs_to_dataframe(_, _)
combine_csvs_to_dataframe(csv_filenames, files) ==
    IF csv_filenames = <<>> THEN [raised |-> "", rows |-> NoRows]
    ELSE IF Head(csv_filenames) \notin DOMAIN files
    THEN [raised |-> "FileNotFoundError", rows |-> NoRows]
    ELSE LET rest == combine_csvs_to_dataframe(Tail(csv_filenames), files)
         IN [raised |-> rest.raised,
             rows |-> Concat(files[Head(csv_filenames)], rest.rows)]

\* The combined file of a lab: rows counts its rows per month of Months,
\* the months from the DATE_FLOOR of this run on; before_floor counts the
\* rows a run at an earlier date left in it whose month is earlier than
\* that floor.  No file: NoCombined.
NoCombined == [exists |-> FALSE, rows |-> NoRows, before_floor |-> 0]

\* What the combined file of an earlier run may hold of rows whose month
\* is earlier than the floor of this run.
EarlierRowsBeforeFloor == {0, 1}

\* Lines 62-68: the month column is read as a categorical of the months
\* from DATE_FLOOR to today (settings._date_dtype), so the month of an
\* earlier row is read as nan; the filter month != DATE_FLOOR compares
\* the column with a date that is none of its categories, which is True
\* for every row, and keeps them all.
KeptBeforeFloor(existing) == existing.before_floor

\* Lines 74-77: the assert on rows without a month.
NanMonths == "AssertionError: There are nan values for month"

\* sorted(existing["month"].unique())[-1]
FinalMonth(rows) ==
    CHOOSE m \in Months : rows[m] > 0 /\ \A n \in Months : rows[n] > 0 => n <= m

\* Variant: a tolerance of 100% instead of 20%.
WithinTolerance_double(final_count, new_final_count) ==
    new_final_count - final_count < final_count

\* Line 86: (new_final_count - final_count) < 0.2 * final_count, in whole
\* numbers.  The counts of the model stay under 15, where the double
\* 0.2 * n is exact for n = 5 and n = 10 and where its rounding for the
\* other n does not change the comparison with a whole number.
WithinTolerance(final_count, new_final_count) ==
    5 * (new_final_count - final_count) < final_count

\* Variant: the row count of the final month is not checked.
MergeWithExisting_unchecked(existing, filenames, unmerged) ==
    [raised |-> "",
     rows |-> IF existing.exists THEN Concat(existing.rows, unmerged)
              ELSE unmerged]

\* Variant: the merged dataframe is the unmerged rows alone.
MergeWithExisting_overwrite(existing, filenames, unmerged) ==
    [raised |-> "", rows |-> unmerged]

\* Lines 61-97: the dataframe `merged`, or the exception.
MergeWithExisting(existing, filenames, unmerged) ==
    IF ~existing.exists THEN [raised |-> "", rows |-> unmerged]
    ELSE IF KeptBeforeFloor(existing) > 0
    THEN [raised |-> NanMonths, rows |-> NoRows]
    ELSE IF Total(existing.rows) = 0
    THEN [raised |-> "IndexError", rows |-> NoRows]
    ELSE LET final_month == FinalMonth(existing.rows)
             final_count == existing.rows[final_month]
             joined == IF filenames # <<>>
                       THEN Concat(existing.rows, unmerged)
                       ELSE existing.rows
         IN IF WithinTolerance(final_count, joined[final_month])
            THEN [raised |-> "", rows |-> joined]
            ELSE [raised |-> "AssertionError: increased by more than 20%",
                  rows |-> NoRows]

\* Variant: the clean-up loop without the write before it.
PcAfterLoad_nowrite(filenames) == "cleanup"

\* Lines 98-104: the CSV is rewritten only when something was unmerged,
\* and the clean-up loop follows.
PcAfterLoad(filenames) == IF filenames # <<>> THEN "write" ELSE "cleanup"

-----------------------------------------------------------------------------
(* file_processing.process_files and the closing loop of runner.do_process *)

\* History of the rows: written holds, for every source file whose ledger
\* entry awaits the merge, the rows its conversion wrote; merged holds, per
\* lab, the rows written for the source files whose entries are marked
\* merged; clean says, per lab, that no call for the lab has ended with an
\* exception since its ledger was last empty.
NoAudit ==
    [written |-> <<>>, merged |-> [l \in Labs |-> NoRows],
     clean |-> [l \in Labs |-> TRUE]]

EndsWithException == pc # "idle" /\ pc' = "idle" /\ lastCall'.raised # ""

AuditStep(w, m) ==
    audit' = [written |-> w, merged |-> m,
              clean |-> IF EndsWithException
                        THEN [audit.clean EXCEPT ![run.lab] = FALSE]
                        ELSE audit.clean]

AuditIdle == AuditStep(audit.written, audit.merged)

RECURSIVE WrittenFor(_, _)
WrittenFor(w, keys) ==
    IF keys = {} THEN NoRows
    ELSE LET k == CHOOSE x \in keys : TRUE
         IN Concat(w[k], WrittenFor(w, keys \ {k}))

Without(w, keys) == [k \in DOMAIN w \ keys |-> w[k]]

NoRun ==
    [kind |-> "", lab |-> "", filenames |-> {}, multiprocessing |-> FALSE,
     reimport |-> FALSE, yes |-> FALSE, answer |-> ""]

NoCall == [kind |-> "", lab |-> "", filenames |-> {}, raised |-> ""]

IdleLocals ==
    /\ pc' = "idle"
    /\ run' = NoRun
    /\ tasks' = <<>>
    /\ unmerged_filenames' = <<>>
    /\ merged' = NoRows
    /\ written' = FALSE

\* The call ends, by return or by an exception that reaches the operator.
Finish(exc) ==
    /\ IdleLocals
    /\ lastCall' = [kind |-> run.kind, lab |-> run.lab,
                    filenames |-> run.filenames, raised |-> exc]

\* A fresh installation, or one where an earlier call has converted and
\* merged old.xls into the combined dataset of the first lab.
InitPipeline ==
    /\ \E n \in {0} \cup EarlierCounts, old \in EarlierRowsBeforeFloor :
          /\ n = 0 => old = 0
          /\ ledger = IF n = 0 THEN {}
                      ELSE { [lab |-> "nd", filename |-> "old.xls",
                              converted_filename |-> ConvertedName("nd", 2, 0),
                              merged_at |-> TRUE] }
          /\ combined = [l \in Labs |->
                            IF l = "nd" /\ n > 0
                            THEN [exists |-> TRUE,
                                  rows |-> [m \in Months |->
                                               IF m = 2 THEN n ELSE 0],
                                  before_floor |-> old]
                            ELSE NoCombined]
    /\ intermediate = <<>>
    /\ pc = "idle"
    /\ run = NoRun
    /\ tasks = <<>>
    /\ unmerged_filenames = <<>>
    /\ merged = NoRows
    /\ written = FALSE
    /\ lastCall = NoCall
    /\ failed = [l \in Labs |-> {}]
    /\ audit = [NoAudit EXCEPT !.merged = [l \in Labs |-> combined[l].rows]]

\* The reimport and yes flags of a call, and what the operator types at
\* the prompt of line 41 when it is shown.
Confirmation(reimport, yes, answer) ==
    [reimport |-> reimport, yes |-> yes, answer |-> answer]

Confirmations ==
    { Confirmation(FALSE, FALSE, ""), Confirmation(TRUE, TRUE, ""),
      Confirmation(TRUE, FALSE, "y"), Confirmation(TRUE, FALSE, "n") }

\* process_files(lab, ..., filenames, ..., multiprocessing, reimport, yes)
\* is called.
StartRun(lab, filenames, multiprocessing, c) ==
    /\ pc = "idle"
    /\ pc' = IF c.reimport THEN "reimport" ELSE "called"
    /\ run' = [kind |-> "process_files", lab |-> lab, filenames |-> filenames,
               multiprocessing |-> multiprocessing, reimport |-> c.reimport,
               yes |-> c.yes, answer |-> c.answer]
    /\ UNCHANGED <<ledger, intermediate, combined, tasks, unmerged_filenames,
                   merged, written, lastCall, failed>>
    /\ AuditIdle
    /\ UNCHANGED outsidePipeline

\* Variant: the reset goes ahead whatever the answer.
do_reset_always(yes, answer) == TRUE

\* Lines 37-43.
do_reset(yes, answer) == yes \/ answer = "y"

\* Variant: every csv file of the directory matches.
glob_anylab(lab, path) == path[Len(path)] = ".csv"

\* glob on "{ENV}*_{lab}*.csv" (ENV being empty): the path holds "_"
\* followed by the code of the lab, and ends in ".csv".
glob(lab, path) ==
    /\ path[Len(path)] = ".csv"
    /\ \E i \in 1..Len(path) :
          /\ path[i] = "_"
          /\ i + Len(LabCode[lab]) < Len(path)
          /\ SubSeq(path, i + 1, i + Len(LabCode[lab])) = LabCode[lab]

\* Lines 36-55: with reimport, the ledger entries of the lab are deleted
\* and the files that match the pattern are removed when the reset is
\* confirmed; the call returns otherwise, having processed nothing.
Reimport ==
    /\ pc = "reimport"
    /\ IF do_reset(run.yes, run.answer)
       THEN /\ ledger' = reset_lab(ledger, run.lab)
            /\ intermediate' =
                  [n \in { x \in DOMAIN intermediate :
                             ~glob(run.lab, ConvertedPath(x)) } |->
                      intermediate[n]]
            /\ combined' =
                  [l \in Labs |->
                      IF glob(run.lab, CombinedPath(l))
                      THEN NoCombined
                      ELSE combined[l]]
            /\ pc' = "called"
            /\ run' = [run EXCEPT !.yes = FALSE, !.answer = ""]
            /\ UNCHANGED <<tasks, unmerged_filenames, merged, written,
                           lastCall>>
            /\ audit' =
                  [written |-> Without(audit.written,
                                       { k \in DOMAIN audit.written :
                                           k[1] = run.lab }),
                   merged |-> [audit.merged EXCEPT ![run.lab] = NoRows],
                   clean |-> [audit.clean EXCEPT ![run.lab] = TRUE]]
       ELSE /\ IdleLocals
            /\ lastCall' = [kind |-> "reimport declined", lab |-> run.lab,
                            filenames |-> run.filenames, raised |-> ""]
            /\ UNCHANGED <<ledger, intermediate, combined, audit>>
    /\ UNCHANGED failed
    /\ UNCHANGED outsidePipeline

\* Lines 56-59 and 82-83: the files not yet in the ledger are the work.
Dispatch ==
    /\ pc = "called"
    /\ LET work == run.filenames \ get_processed_filenames(ledger, run.lab)
       IN IF work = {}
          THEN Finish("") /\ UNCHANGED <<ledger, intermediate, combined, failed>>
          ELSE /\ pc' = "converting"
               /\ tasks' = [f \in work |->
                               [st |-> "queued", rows |-> NoRows,
                                name |-> ConvertedName(run.lab, 1, 0),
                                raised |-> "", keys_ok |-> TRUE]]
               /\ UNCHANGED <<ledger, intermediate, combined, run,
                              unmerged_filenames, merged, written, lastCall, failed>>
    /\ AuditIdle
    /\ UNCHANGED outsidePipeline

Finished(t) == t.st \in {"done", "failed"}

\* Lines 69-74: the pool may run any number of invocations at once (it has
\* one worker per CPU), the loop runs one at a time and none after an
\* exception.
MayStart ==
    \/ run.multiprocessing
    \/ \A f \in DOMAIN tasks : tasks[f].st \in {"queued", "done"}

\* make_intermediate_file up to line 247: the rows are converted and the
\* output name is chosen.
Convert(f) ==
    /\ pc = "converting"
    /\ f \in DOMAIN tasks
    /\ tasks[f].st = "queued"
    /\ MayStart
    /\ \E input \in FileInputs[run.lab] :
          LET res == make_intermediate_rows(input) IN
          /\ failed' = [failed EXCEPT ![run.lab] =
                           IF res.raised = "" THEN @ \ {f} ELSE @ \cup {f}]
          /\ \E month \in IF res.raised = "" THEN MostCommonDates(res.rows)
                          ELSE {1} :
                tasks' = [tasks EXCEPT ![f] =
                             [st |-> StatusAfterRows(res.raised),
                              rows |-> res.rows,
                              name |-> UnusedName(intermediate, run.lab, month),
                              raised |-> res.raised,
                              keys_ok |-> input.keys_ok]]
    /\ UNCHANGED <<ledger, intermediate, combined, pc, run,
                   unmerged_filenames, merged, written, lastCall>>
    /\ AuditIdle
    /\ UNCHANGED outsidePipeline

\* Lines 249-250: os.rename, then mark_as_processed.
RenameAndMark(f) ==
    /\ pc = "converting"
    /\ f \in DOMAIN tasks
    /\ tasks[f].st = "named"
    /\ intermediate' = Rename(intermediate, tasks[f].name, tasks[f].rows)
    /\ LET res == mark_as_processed(ledger, run.lab, f, tasks[f].name) IN
          /\ ledger' = res.table
          /\ tasks' = [tasks EXCEPT
                          ![f].st = IF res.raised # "" THEN "failed"
                                    ELSE IF run.kind = "lib.runner"
                                    THEN "returned"
                                    ELSE "done",
                          ![f].raised = res.raised]
    /\ UNCHANGED <<combined, pc, run, unmerged_filenames, merged, written, lastCall, failed>>
    /\ AuditStep(IF mark_as_processed(ledger, run.lab, f,
                                      tasks[f].name).raised = ""
                 THEN (<<run.lab, f>> :> tasks[f].rows) @@ audit.written
                 ELSE audit.written,
                 audit.merged)
    /\ UNCHANGED outsidePipeline

\* Variant: a join that waits for one invocation only.
AllFinished_any(ts) == \E f \in DOMAIN ts : ts[f].st \in {"done", "failed"}

\* pool.map returns, or the for loop ends, once every invocation is over.
AllFinished(ts) == \A f \in DOMAIN ts : Finished(ts[f])

\* The exception of a conversion leaves process_files: from the loop at
\* once, from pool.map when all invocations are over.
ConversionsRaise ==
    /\ pc = "converting"
    /\ \E f \in DOMAIN tasks : tasks[f].st = "failed"
    /\ run.multiprocessing => AllFinished(tasks)
    /\ Finish("conversion failed")
    /\ UNCHANGED <<ledger, intermediate, combined, failed>>
    /\ AuditIdle
    /\ UNCHANGED outsidePipeline

\* Line 75: combine_and_append_csvs(lab) is called.
Join ==
    /\ pc = "converting"
    /\ AllFinished(tasks)
    /\ ~\E f \in DOMAIN tasks : tasks[f].st = "failed"
    /\ pc' = "merge"
    /\ UNCHANGED <<ledger, intermediate, combined, run, tasks,
                   unmerged_filenames, merged, written, lastCall, failed>>
    /\ AuditIdle
    /\ UNCHANGED outsidePipeline

\* runner.do_process lines 142-143: combine_and_append_csvs for a lab,
\* after the process_files calls have returned.
StartMerge(lab) ==
    /\ pc = "idle"
    /\ pc' = "merge"
    /\ run' = [NoRun EXCEPT !.kind = "do_process", !.lab = lab]
    /\ UNCHANGED <<ledger, intermediate, combined, tasks, unmerged_filenames,
                   merged, written, lastCall, failed>>
    /\ AuditIdle
    /\ UNCHANGED outsidePipeline

\* Lines 54-97: the unmerged files and the existing combined file are
\* read and checked.
MergeLoad ==
    /\ pc = "merge"
    /\ \E pairs \in Orderings(get_unmerged_filenames(ledger, run.lab)) :
          LET filenames == [i \in DOMAIN pairs |-> pairs[i][2]]
              unmerged == combine_csvs_to_dataframe(filenames, intermediate)
              res == MergeWithExisting(combined[run.lab], filenames,
                                       unmerged.rows)
          IN IF unmerged.raised # ""
             THEN Finish(unmerged.raised)
             ELSE IF res.raised # ""
             THEN Finish(res.raised)
             ELSE /\ pc' = PcAfterLoad(filenames)
                  /\ unmerged_filenames' = filenames
                  /\ merged' = res.rows
                  /\ UNCHANGED <<run, tasks, written, lastCall>>
    /\ UNCHANGED <<ledger, intermediate, combined, failed>>
    /\ AuditIdle
    /\ UNCHANGED outsidePipeline

\* Line 100: merged.to_csv succeeds, or fails before touching the file.
MergeWrite ==
    /\ pc = "write"
    /\ \/ /\ combined' = [combined EXCEPT ![run.lab] =
                             [exists |-> TRUE, rows |-> merged,
                              before_floor |-> 0]]
          /\ written' = TRUE
          /\ pc' = "cleanup"
          /\ UNCHANGED <<run, tasks, unmerged_filenames, merged, lastCall>>
       \/ /\ Finish("OSError")
          /\ UNCHANGED combined
    /\ UNCHANGED <<ledger, intermediate, failed>>
    /\ AuditIdle
    /\ UNCHANGED outsidePipeline

\* Line 103: mark_as_merged for the next file of the loop.
MergeMark ==
    /\ pc = "cleanup"
    /\ unmerged_filenames # <<>>
    /\ ledger' = mark_as_merged(ledger, run.lab, Head(unmerged_filenames))
    /\ pc' = "remove"
    /\ UNCHANGED <<intermediate, combined, run, tasks, unmerged_filenames,
                   merged, written, lastCall, failed>>
    /\ LET marked == { <<e.lab, e.filename>> :
                         e \in { x \in ledger :
                                   /\ x.lab = run.lab
                                   /\ x.converted_filename
                                         = Head(unmerged_filenames)
                                   /\ ~x.merged_at } }
       IN AuditStep(Without(audit.written, marked),
                    [audit.merged EXCEPT ![run.lab] =
                        Concat(@, WrittenFor(audit.written, marked))])
    /\ UNCHANGED outsidePipeline

\* Line 104: os.remove for the same file.
MergeRemove ==
    /\ pc = "remove"
    /\ IF Head(unmerged_filenames) \in DOMAIN intermediate
       THEN /\ intermediate' = Remove(intermediate, Head(unmerged_filenames))
            /\ unmerged_filenames' = Tail(unmerged_filenames)
            /\ pc' = "cleanup"
            /\ UNCHANGED <<run, tasks, merged, written, lastCall>>
       ELSE /\ Finish("FileNotFoundError")
            /\ UNCHANGED intermediate
    /\ UNCHANGED <<ledger, combined, failed>>
    /\ AuditIdle
    /\ UNCHANGED outsidePipeline

\* The loop is over and the call returns (what follows, lines 105-112 and
\* process_files lines 76-81, touches neither the ledger, nor the converted
\* files, nor the combined dataset).
MergeDone ==
    /\ pc = "cleanup"
    /\ unmerged_filenames = <<>>
    /\ Finish("")
    /\ UNCHANGED <<ledger, intermediate, combined, failed>>
    /\ AuditIdle
    /\ UNCHANGED outsidePipeline

NoOutcome == [raised |-> "", result_category |-> <<>>]

\* No call of normalise_and_suppress under way and no processed file.
SuppressIdle ==
    /\ mergedFrame = <<>>
    /\ codeMapping = {}
    /\ processedFile = [exists |-> FALSE, rows |-> <<>>]
    /\ stage = "idle"

\* No file is being read row by row.
LoopIdle ==
    /\ raw_rows = <<>>
    /\ row_index = 0
    /\ loop_pc = "idle"
    /\ invoked = <<>>
    /\ outfile = <<>>
    /\ escaped = ""

ClassifierIdle ==
    /\ NO_REF_RANGES = {}
    /\ ranges = <<>>
    /\ row = [test_code |-> 1, test_result |-> Unparsed, sex |-> "U",
              age |-> 35, direction |-> ""]
    /\ outcome = NoOutcome
    /\ phase = "idle"

Init == ClassifierIdle /\ SuppressIdle /\ LoopIdle /\ InitPipeline

Next ==
    \/ \E lab \in Labs :
          \E filenames \in (SUBSET InputFiles[lab]) \ {{}} :
             \E multiprocessing \in BOOLEAN : \E c \in Confirmations :
                StartRun(lab, filenames, multiprocessing, c)
    \/ Reimport
    \/ Dispatch
    \/ \E f \in DOMAIN tasks : Convert(f)
    \/ \E f \in DOMAIN tasks : RenameAndMark(f)
    \/ ConversionsRaise
    \/ Join
    \/ \E lab \in Labs : StartMerge(lab)
    \/ MergeLoad
    \/ MergeWrite
    \/ MergeMark
    \/ MergeRemove
    \/ MergeDone

Spec == Init /\ [][Next]_vars

\* The pipeline at rest with nothing on disk, as seen by a worker process
\* that only classifies rows.
PipelineIdle ==
    /\ ledger = {}
    /\ intermediate = <<>>
    /\ combined = [l \in Labs |-> NoCombined]
    /\ pc = "idle"
    /\ run = NoRun
    /\ tasks = <<>>
    /\ unmerged_filenames = <<>>
    /\ merged = NoRows
    /\ written = FALSE
    /\ lastCall = NoCall
    /\ failed = [l \in Labs |-> {}]
    /\ audit = NoAudit

-----------------------------------------------------------------------------
(* One worker process classifying rows of one lab.                         *)

InitClassify ==
    /\ PipelineIdle
    /\ SuppressIdle
    /\ LoopIdle
    /\ NO_REF_RANGES = {}
    /\ ranges \in Tables
    /\ row \in Rows
    /\ outcome = NoOutcome
    /\ phase = "ready"

\* make_intermediate_file line 208: convert_to_result(row, ref_ranges).
Classify ==
    /\ phase = "ready"
    /\ outcome' = standard_convert_to_result(row, ranges, NO_REF_RANGES).out
    /\ NO_REF_RANGES' =
           standard_convert_to_result(row, ranges, NO_REF_RANGES).cache
    /\ phase' = "classified"
    /\ UNCHANGED <<ranges, row>>
    /\ UNCHANGED outsideClassifier

\* A later row of the same file that carries the same fields.
ClassifyAgain ==
    /\ phase = "classified"
    /\ outcome' = standard_convert_to_result(row, ranges, NO_REF_RANGES).out
    /\ NO_REF_RANGES' =
           standard_convert_to_result(row, ranges, NO_REF_RANGES).cache
    /\ phase' = "reclassified"
    /\ UNCHANGED <<ranges, row>>
    /\ UNCHANGED outsideClassifier

NextClassify == Classify \/ ClassifyAgain

SpecClassify == InitClassify /\ [][NextClassify]_vars

-----------------------------------------------------------------------------
(* One process classifying the rows of several labs in turn: do_process    *)
(* without multiprocessing calls process_files lab after lab, and every    *)
(* make_intermediate_file runs in the calling process.                     *)

ProcTables == { s \in Tables : Len(s) <= 1 }

ProcRows == { r \in Rows : r.sex = "M" /\ r.age = 37 }

InitProcess ==
    /\ PipelineIdle
    /\ SuppressIdle
    /\ LoopIdle
    /\ NO_REF_RANGES = {}
    /\ ranges \in ProcTables
    /\ row \in ProcRows
    /\ outcome = NoOutcome
    /\ phase = "ready"

\* The next row of the lab's files (make_intermediate_file line 203).
NextRow ==
    /\ phase = "classified"
    /\ row' \in ProcRows
    /\ phase' = "ready"
    /\ UNCHANGED <<NO_REF_RANGES, ranges, outcome>>
    /\ UNCHANGED outsideClassifier

\* The next lab of do_process (runner.py line 117): its reference ranges
\* replace the previous lab's, the module-level NO_REF_RANGES stays.
NextLab ==
    /\ phase = "classified"
    /\ ranges' \in ProcTables
    /\ row' \in ProcRows
    /\ phase' = "ready"
    /\ UNCHANGED <<NO_REF_RANGES, outcome>>
    /\ UNCHANGED outsideClassifier

NextProcess == Classify \/ NextRow \/ NextLab

SpecProcess == InitProcess /\ [][NextProcess]_vars

-----------------------------------------------------------------------------
(* whole_file_processing.normalise_and_suppress: bounded inputs.           *)

SUPPRESS_UNDER == 6

SUPPRESS_STRING == "1-5"

\* Most groups with rows in the frame handed to normalise_and_suppress.
MaxGroups == 3

\* Practices of the rows; practice_codes.csv knows the first only.
Practices == {"p1", "zz"}

KnownPractices == {"p1"}

\* The keys of groupby: month, test_code, practice_id, result_category.
Groups ==
    [month : Months, test_code : TestCodes, practice_id : Practices,
     result_category : {WITHIN_RANGE}]

\* Rows of one group.
RowCounts == {1, 5, 6, 20, 120}

GroupSets == { S \in SUBSET Groups : Cardinality(S) <= MaxGroups }

\* A dataframe, as the number of its rows in every group.
Frame(S, c) == [g \in Groups |-> IF g \in S THEN c[g] ELSE 0]

\* Rows of test_codes.csv kept by _get_test_codes for a lab with one alias
\* column: the canonical code and the lab's own code, <<>> standing for
\* "_DONTJOIN_" (an alias equal to the canonical code).  The empty table
\* stands for a lab without mappings.
MappingRow(code, alias) == [datalab_testcode |-> code, alias |-> alias]

CodeMappings ==
    { {},
      { MappingRow(1, <<>>) },
      { MappingRow(1, <<2>>) },
      { MappingRow(1, <<2>>), MappingRow(2, <<>>) } }

\* A cell of the column count: the string "1-5" or a number.
Str(text) == [str |-> text, num |-> 0]

Num(n) == [str |-> "", num |-> n]

NoFile == [exists |-> FALSE, rows |-> <<>>]

-----------------------------------------------------------------------------
(* whole_file_processing.normalise_and_suppress                            *)

\* _normalise_test_codes: for the alias column and for datalab_testcode, the
\* rows whose test_code equals the column are kept under the canonical
\* code; the outputs of the two joins are appended.
_normalise_test_codes(test_code_mapping, df) ==
    IF test_code_mapping = {} THEN df
    ELSE [g \in Groups |->
            LET ms == { m \in test_code_mapping :
                          m.datalab_testcode = g.test_code }
            IN IF ms = {} THEN 0
               ELSE LET m == CHOOSE x \in ms : TRUE
                    IN (IF m.alias # <<>>
                        THEN df[[g EXCEPT !.test_code = m.alias[1]]]
                        ELSE 0)
                       + df[g]]

\* Lines 263-268: groupby(...).count() over the observed groups.
Aggregate(normalised) ==
    [g \in { x \in Groups : normalised[x] > 0 } |-> normalised[g]]

\* Variant: a count of SUPPRESS_UNDER - 1 is not suppressed.
Suppress_under5(n) ==
    IF n < SUPPRESS_UNDER - 1 THEN Str(SUPPRESS_STRING) ELSE Num(n)

\* Variant: a count of SUPPRESS_UNDER is suppressed too.
Suppress_upto(n) == IF n <= SUPPRESS_UNDER THEN Str(SUPPRESS_STRING) ELSE Num(n)

\* Lines 269-271: counts under SUPPRESS_UNDER become SUPPRESS_STRING.
Suppress(n) == IF n < SUPPRESS_UNDER THEN Str(SUPPRESS_STRING) ELSE Num(n)

\* estimate_errors on one row: "1-5" is replaced by 3, rows whose count is
\* then 3 get error 2 and the others 0, and the count is made numeric.
estimate_errors(cell) ==
    LET n == IF cell = Str("1-5") THEN 3 ELSE cell.num
    IN [count |-> Num(n), error |-> IF n = 3 THEN 2 ELSE 0]

RECURSIVE SumOfCounts(_, _)
SumOfCounts(df, S) ==
    IF S = {} THEN 0
    ELSE LET g == CHOOSE x \in S : TRUE
         IN df[g].count.num + SumOfCounts(df, S \ {g})

\* groupby(["month"])["count"].sum()
MonthSum(df, month) ==
    SumOfCounts(df, { g \in DOMAIN df : g.month = month })

\* count > max * 0.05, in whole numbers (for whole counts the product in
\* double precision is never below a count that is 5% of max exactly).
OverFivePercent(count, max) == 20 * count > max

\* trim_trailing_months: the inner join on the months that pass.
trim_trailing_months(df) ==
    LET months == { g.month : g \in DOMAIN df }
        max == CHOOSE t \in { MonthSum(df, m) : m \in months } :
                  \A m \in months : MonthSum(df, m) <= t
        kept == { m \in months : OverFivePercent(MonthSum(df, m), max) }
    IN [g \in { x \in DOMAIN df : x.month \in kept } |-> df[g]]

\* add_practice_metadata: the inner join on practice_codes.csv.
add_practice_metadata(df) ==
    [g \in { x \in DOMAIN df : x.practice_id \in KnownPractices } |-> df[g]]

\* The file written by normalise_and_suppress, if any.
normalise_and_suppress(test_code_mapping, merged_df) ==
    LET normalised == _normalise_test_codes(test_code_mapping, merged_df)
        counted == Aggregate(normalised)
        aggregated == [g \in DOMAIN counted |->
                          estimate_errors(Suppress(counted[g]))]
    IN IF DOMAIN counted = {} THEN NoFile
       ELSE [exists |-> TRUE,
             rows |-> add_practice_metadata(trim_trailing_months(aggregated))]

InitSuppress ==
    /\ PipelineIdle
    /\ ClassifierIdle
    /\ LoopIdle
    /\ \E S \in GroupSets : \E c \in [S -> RowCounts] :
          mergedFrame = Frame(S, c)
    /\ codeMapping \in CodeMappings
    /\ processedFile = NoFile
    /\ stage = "input"

NormaliseAndSuppress ==
    /\ stage = "input"
    /\ processedFile' = normalise_and_suppress(codeMapping, mergedFrame)
    /\ stage' = "done"
    /\ UNCHANGED <<mergedFrame, codeMapping>>
    /\ UNCHANGED outsideSuppress

NextSuppress == NormaliseAndSuppress

SpecSuppress == InitSuppress /\ [][NextSuppress]_vars

-----------------------------------------------------------------------------
(* data_sources/lib/runner.py: process_files hands every file to           *)
(* process_file, which calls make_intermediate_file and then               *)
(* mark_as_processed with the path it returned.                            *)

\* lib.runner.process_files(lab, ..., filenames, ..., multiprocessing) is
\* called without reimport.
StartLibRunner(lab, filenames, multiprocessing) ==
    /\ pc = "idle"
    /\ pc' = "called"
    /\ run' = [NoRun EXCEPT !.kind = "lib.runner", !.lab = lab,
                            !.filenames = filenames,
                            !.multiprocessing = multiprocessing]
    /\ UNCHANGED <<ledger, intermediate, combined, tasks, unmerged_filenames,
                   merged, written, lastCall, failed>>
    /\ AuditIdle
    /\ UNCHANGED outsidePipeline

\* process_file line 40: mark_as_processed after make_intermediate_file
\* has returned.
MarkAgain(f) ==
    /\ pc = "converting"
    /\ f \in DOMAIN tasks
    /\ tasks[f].st = "returned"
    /\ LET res == mark_as_processed(ledger, run.lab, f, tasks[f].name) IN
          /\ ledger' = res.table
          /\ tasks' = [tasks EXCEPT
                          ![f].st = IF res.raised = "" THEN "done"
                                    ELSE "failed",
                          ![f].raised = res.raised]
    /\ UNCHANGED <<intermediate, combined, pc, run, unmerged_filenames,
                   merged, written, lastCall, failed>>
    /\ AuditIdle
    /\ UNCHANGED outsidePipeline

NextLibRunner ==
    \/ \E lab \in Labs :
          \E filenames \in (SUBSET InputFiles[lab]) \ {{}} :
             \E multiprocessing \in BOOLEAN :
                StartLibRunner(lab, filenames, multiprocessing)
    \/ Dispatch
    \/ \E f \in DOMAIN tasks : Convert(f)
    \/ \E f \in DOMAIN tasks : RenameAndMark(f)
    \/ \E f \in DOMAIN tasks : MarkAgain(f)
    \/ ConversionsRaise

SpecLibRunner == Init /\ [][NextLibRunner]_vars

-----------------------------------------------------------------------------
(* The ledger under callers that share processed.db: each function of      *)
(* intermediate_file_tracking opens its own connection and runs one        *)
(* statement, so the calls of concurrent workers interleave statement by   *)
(* statement.                                                              *)

LedgerFiles == {"a.xls", "b.xls"}

LedgerNames(lab) == { ConvertedName(lab, 1, d) : d \in {0, 1} }

LedgerCall(kind, lab, filenames, raised) ==
    [kind |-> kind, lab |-> lab, filenames |-> filenames, raised |-> raised]

InitLedger == ClassifierIdle /\ SuppressIdle /\ LoopIdle /\ PipelineIdle

outsideLedger ==
    <<intermediate, combined, pc, run, tasks, unmerged_filenames, merged,
      written, failed, audit>>

MarkAsProcessed(lab, filename, converted_filename) ==
    /\ LET res == mark_as_processed(ledger, lab, filename, converted_filename)
       IN /\ ledger' = res.table
          /\ lastCall' = LedgerCall("mark_as_processed", lab, {filename},
                                    res.raised)
    /\ UNCHANGED outsideLedger
    /\ UNCHANGED outsidePipeline

MarkAsMerged(lab, converted_filename) ==
    /\ ledger' = mark_as_merged(ledger, lab, converted_filename)
    /\ lastCall' = LedgerCall("mark_as_merged", lab, {}, "")
    /\ UNCHANGED outsideLedger
    /\ UNCHANGED outsidePipeline

ResetLab(lab) ==
    /\ ledger' = reset_lab(ledger, lab)
    /\ lastCall' = LedgerCall("reset_lab", lab, {}, "")
    /\ UNCHANGED outsideLedger
    /\ UNCHANGED outsidePipeline

\* The two queries: a select, which leaves the table alone.
GetProcessedFilenames(lab) ==
    /\ lastCall' = LedgerCall("get_processed_filenames", lab,
                              get_processed_filenames(ledger, lab), "")
    /\ UNCHANGED ledger
    /\ UNCHANGED outsideLedger
    /\ UNCHANGED outsidePipeline

GetUnmergedFilenames(lab) ==
    /\ lastCall' = LedgerCall("get_unmerged_filenames", lab,
                              { p[1] : p \in get_unmerged_filenames(ledger, lab) },
                              "")
    /\ UNCHANGED ledger
    /\ UNCHANGED outsideLedger
    /\ UNCHANGED outsidePipeline

NextLedger ==
    \/ \E lab \in Labs : \E f \in LedgerFiles : \E c \in LedgerNames(lab) :
          MarkAsProcessed(lab, f, c)
    \/ \E lab \in Labs : \E c \in LedgerNames(lab) : MarkAsMerged(lab, c)
    \/ \E lab \in Labs : ResetLab(lab)
    \/ \E lab \in Labs : GetProcessedFilenames(lab)
    \/ \E lab \in Labs : GetUnmergedFilenames(lab)

SpecLedger == InitLedger /\ [][NextLedger]_vars

-----------------------------------------------------------------------------
(* intermediate_file_processing.make_intermediate_file: the loop over the  *)
(* raw rows of one source file, lines 202-230, and line 233 after it.      *)

MaxRawRows == 2

\* The stages in the order of lines 205-208.
Stages ==
    <<"drop_unwanted_data", "normalise_data", "skip_old_data",
      "convert_to_result">>

\* A raw row by what the stages do when they are handed it: the
\* lab's drop_unwanted_data returns or raises StopProcessing; the lab's
\* normalise_data returns the normalised row, raises StopProcessing, or
\* raises another exception (a date it cannot parse); the month of the
\* normalised row is earlier than DATE_FLOOR or not; convert_to_result
\* returns the row with its result_category or raises StopProcessing; the
\* row returned carries the keys of REQUIRED_NORMALISED_KEYS or not.
RawRow(drop, normalise, old, convert, keys_ok) ==
    [drop |-> drop, normalise |-> normalise, old |-> old,
     convert |-> convert, keys_ok |-> keys_ok]

RawRows ==
    { RawRow(d, n, o, c, k) :
        d \in {"ok", "skip"}, n \in {"ok", "skip", "error"}, o \in BOOLEAN,
        c \in {"ok", "skip"}, k \in BOOLEAN }

RawFiles == UNION { [1..n -> RawRows] : n \in 0..MaxRawRows }

\* What the call of a stage on a row raises; "" when it returns.
\* skip_old_data is lines 46-48.
StageRaises(fn, r) ==
    CASE fn = "drop_unwanted_data" ->
             IF r.drop = "skip" THEN "StopProcessing" ELSE ""
      [] fn = "normalise_data" ->
             IF r.normalise = "skip" THEN "StopProcessing"
             ELSE IF r.normalise = "error" THEN "ValueError" ELSE ""
      [] fn = "skip_old_data" ->
             IF r.old THEN "StopProcessing" ELSE ""
      [] fn = "convert_to_result" ->
             IF r.convert = "skip" THEN "StopProcessing" ELSE ""

\* Where the try body goes after a stage has returned: the next statement
\* of lines 205-208, or the `if row:` of line 212 with the converted row.
NextStage(fn) ==
    CASE fn = "drop_unwanted_data" -> "normalise_data"
      [] fn = "normalise_data" -> "skip_old_data"
      [] fn = "skip_old_data" -> "convert_to_result"
      [] fn = "convert_to_result" -> "if row"

\* Variant: the handler of StopProcessing resumes the try body.
ExceptStopProcessing_resume(fn) == NextStage(fn)

\* Lines 209-212: the handler sets row to None, `if row:` is false and the
\* for loop takes the next row.
ExceptStopProcessing(fn) == "for"

InitLoop ==
    /\ ClassifierIdle
    /\ SuppressIdle
    /\ PipelineIdle
    /\ raw_rows \in RawFiles
    /\ row_index = 0
    /\ loop_pc = "for"
    /\ invoked = <<>>
    /\ outfile = <<>>
    /\ escaped = ""

\* Line 203: the next row of row_iterator, or the end of the loop.
ForRow ==
    /\ loop_pc = "for"
    /\ IF row_index < Len(raw_rows)
       THEN /\ row_index' = row_index + 1
            /\ loop_pc' = Stages[1]
       ELSE /\ loop_pc' = "after loop"
            /\ UNCHANGED row_index
    /\ UNCHANGED <<raw_rows, invoked, outfile, escaped>>
    /\ UNCHANGED outsideLoop

\* One statement of the try body, lines 205-208, and the handler of
\* lines 209-210 when it raises StopProcessing; any other exception leaves
\* make_intermediate_file.
CallStage(fn) ==
    /\ loop_pc = fn
    /\ invoked' = Append(invoked, <<row_index, fn>>)
    /\ LET exc == StageRaises(fn, raw_rows[row_index])
       IN IF exc = ""
          THEN loop_pc' = NextStage(fn) /\ UNCHANGED escaped
          ELSE IF exc = "StopProcessing"
          THEN loop_pc' = ExceptStopProcessing(fn) /\ UNCHANGED escaped
          ELSE loop_pc' = "raised" /\ escaped' = exc
    /\ UNCHANGED <<raw_rows, row_index, outfile>>
    /\ UNCHANGED outsideLoop

DropUnwantedData == CallStage("drop_unwanted_data")

NormaliseData == CallStage("normalise_data")

SkipOldData == CallStage("skip_old_data")

ConvertToResult == CallStage("convert_to_result")

\* Lines 212-229 for a row that came out of the try body: the header and
\* the assert on the keys before the first row written, then the row.
WriteRow ==
    /\ loop_pc = "if row"
    /\ IF outfile = <<>> /\ ~raw_rows[row_index].keys_ok
       THEN /\ loop_pc' = "raised"
            /\ escaped' = "AssertionError"
            /\ UNCHANGED outfile
       ELSE /\ outfile' = Append(outfile, row_index)
            /\ loop_pc' = "for"
            /\ UNCHANGED escaped
    /\ UNCHANGED <<raw_rows, row_index, invoked>>
    /\ UNCHANGED outsideLoop

\* Lines 230-233: with no row written first_dates is empty and
\* most_common(1)[0] raises IndexError; otherwise the file gets its name.
AfterLoop ==
    /\ loop_pc = "after loop"
    /\ IF outfile = <<>>
       THEN loop_pc' = "raised" /\ escaped' = "IndexError"
       ELSE loop_pc' = "named" /\ UNCHANGED escaped
    /\ UNCHANGED <<raw_rows, row_index, invoked, outfile>>
    /\ UNCHANGED outsideLoop

NextLoop ==
    \/ ForRow
    \/ DropUnwantedData
    \/ NormaliseData
    \/ SkipOldData
    \/ ConvertToResult
    \/ WriteRow
    \/ AfterLoop

SpecLoop == InitLoop /\ [][NextLoop]_vars

-----------------------------------------------------------------------------
(* Properties of the pipeline.                                             *)

InCall == pc # "idle"

InMerge == pc \in {"merge", "write", "cleanup", "remove"}

EntriesOf(table, lab, filename) ==
    { e \in table : e.lab = lab /\ e.filename = filename }

OneEntryEach(table, lab, filenames) ==
    \A f \in filenames : Cardinality(EntriesOf(table, lab, f)) = 1

\* The call under way is process_files, and the call that ended just before
\* it was process_files for the same lab and the same filenames.
Repeat ==
    /\ InCall
    /\ run.kind = "process_files"
    /\ ~run.reimport
    /\ lastCall.kind = "process_files"
    /\ lastCall.lab = run.lab
    /\ lastCall.filenames = run.filenames

RepeatOfReturned == Repeat /\ lastCall.raised = ""

UnmergedEntries(lab) == { e \in ledger : e.lab = lab /\ ~e.merged_at }

RECURSIVE RowsOfEntries(_, _)
RowsOfEntries(entries, month) ==
    IF entries = {} THEN 0
    ELSE LET e == CHOOSE x \in entries : TRUE
         IN intermediate[e.converted_filename][month]
                + RowsOfEntries(entries \ {e}, month)

LatestMonth(rows) ==
    CHOOSE m \in Months : rows[m] > 0 /\ ~\E n \in Months : n > m /\ rows[n] > 0

\* Merging the lab's unmerged files into its combined dataset would raise
\* the row count of the most recent month by more than 20%.
GrowthOver20(lab) ==
    /\ combined[lab].exists
    /\ Total(combined[lab].rows) > 0
    /\ \A e \in UnmergedEntries(lab) : e.converted_filename \in DOMAIN intermediate
    /\ LET old == combined[lab].rows[LatestMonth(combined[lab].rows)]
           added == RowsOfEntries(UnmergedEntries(lab),
                                  LatestMonth(combined[lab].rows))
       IN 5 * added > old

IntegrityError == "AssertionError: increased by more than 20%"

\* The assertion on which the integrity checks of lines 74-94 end for a
\* combined file that fails them: that of lines 75-77 when the file holds
\* rows of months earlier than the floor, that of line 86 otherwise.
FailedAssertion(lab) ==
    IF combined[lab].before_floor > 0 THEN NanMonths ELSE IntegrityError

\* C2: when combine_and_append_csvs starts with an existing combined dataset
\* whose most recent month would grow by more than 20%, it ends with the
\* error of an integrity assertion and the combined dataset, the ledger
\* and the converted files are as before.
C2_GrowthAborts ==
    [][(pc = "merge" /\ GrowthOver20(run.lab)) =>
          /\ pc' = "idle"
          /\ lastCall'.lab = run.lab
          /\ lastCall'.raised = FailedAssertion(run.lab)
          /\ combined' = combined
          /\ ledger' = ledger
          /\ intermediate' = intermediate]_vars

C2_Witness ==
    /\ pc = "idle"
    /\ lastCall.lab = "nd"
    /\ lastCall.raised = IntegrityError
    /\ GrowthOver20("nd")
    /\ combined["nd"].rows[2] = 6

MarksMerged ==
    \E e \in ledger : ~e.merged_at /\ [e EXCEPT !.merged_at = TRUE] \in ledger'

Deleted == DOMAIN intermediate \ DOMAIN intermediate'

\* C3: a step that marks a ledger entry merged, or deletes a converted
\* file, is taken only after to_csv has written the merged rows to the
\* combined dataset in the same call; and a converted file is deleted only
\* when the lab's ledger entries for it are already marked merged.  (The
\* reset of a confirmed reimport, which is not part of
\* combine_and_append_csvs, deletes files of its own.)
C3_WriteMarkDelete ==
    [][pc # "reimport" =>
          /\ (MarksMerged \/ Deleted # {}) =>
                 /\ written
                 /\ combined[run.lab] = [exists |-> TRUE, rows |-> merged,
                                          before_floor |-> 0]
          /\ \A n \in Deleted :
                 \A e \in ledger :
                     (e.lab = run.lab /\ e.converted_filename = n) =>
                         e.merged_at]_vars

C3_Witness ==
    /\ pc = "cleanup"
    /\ written
    /\ unmerged_filenames = <<>>
    /\ DOMAIN tasks = {"a.xls", "b.xls"}
    /\ intermediate = <<>>
    /\ \A e \in ledger : e.merged_at

\* C4: while combine_and_append_csvs runs inside process_files, every
\* make_intermediate_file invocation of the call is over, and no invocation
\* takes a step.
C4_MergeAfterJoin ==
    /\ [](InMerge =>
             \A f \in DOMAIN tasks : tasks[f].st \in {"done", "failed"})
    /\ [][InMerge => (tasks' = tasks \/ pc' = "idle")]_vars

C4_Witness ==
    /\ pc = "merge"
    /\ run.multiprocessing
    /\ DOMAIN tasks = {"a.xls", "b.xls"}
    /\ \A f \in DOMAIN tasks : tasks[f].st = "done"

\* C5: a source file whose conversion failed has no ledger entry: neither
\* get_processed_filenames nor get_unmerged_filenames returns it, and the
\* next process_files call that is given it converts it again.
C5_FailedNotInLedger ==
    /\ [](\A lab \in Labs : \A f \in failed[lab] :
             /\ EntriesOf(ledger, lab, f) = {}
             /\ f \notin get_processed_filenames(ledger, lab)
             /\ ~\E x \in get_unmerged_filenames(ledger, lab) : x[1] = f)
    /\ [][(pc = "called" /\ run.filenames \cap failed[run.lab] # {}) =>
             /\ pc' = "converting"
             /\ run.filenames \cap failed[run.lab] \subseteq DOMAIN tasks']_vars

C5_Witness ==
    /\ pc = "converting"
    /\ run.lab = "nd"
    /\ "a.xls" \in failed["nd"]
    /\ lastCall.lab = "nd"
    /\ lastCall.raised = "conversion failed"
    /\ "a.xls" \in DOMAIN tasks
    /\ \E e \in ledger : e.filename = "b.xls"

\* C15: a conversion ends in an error only when a surviving row lacks a
\* required key; whatever rows are skipped, a conversion that is over has
\* raised nothing and its source file has a ledger entry.
C15_SkipsAreNotErrors ==
    \A f \in DOMAIN tasks :
        Finished(tasks[f]) /\ tasks[f].keys_ok =>
            /\ tasks[f].raised = ""
            /\ EntriesOf(ledger, run.lab, f) # {}

FirstRowLacksKey(t) == t.st # "queued" /\ ~t.keys_ok

\* C16: when the first surviving row of a file lacks a required key, the
\* conversion raises AssertionError, none of the rows of the file reaches
\* an intermediate file, the file has no ledger entry, and the call of
\* process_files ends with the exception.
C16_MissingKeyAborts ==
    /\ [](\A f \in DOMAIN tasks : FirstRowLacksKey(tasks[f]) =>
             /\ tasks[f].st = "failed"
             /\ tasks[f].raised = "AssertionError"
             /\ tasks[f].rows = NoRows
             /\ EntriesOf(ledger, run.lab, f) = {})
    /\ [][(\E f \in DOMAIN tasks : FirstRowLacksKey(tasks[f])) =>
             \/ pc' = "converting"
             \/ pc' = "idle" /\ lastCall'.raised = "conversion failed"]_vars

C16_Witness ==
    /\ pc = "converting"
    /\ run.multiprocessing
    /\ DOMAIN tasks = {"a.xls", "b.xls"}
    /\ FirstRowLacksKey(tasks["a.xls"])
    /\ tasks["a.xls"].raised = "AssertionError"
    /\ tasks["b.xls"].st = "done"
    /\ EntriesOf(ledger, "nd", "a.xls") = {}
    /\ EntriesOf(ledger, "nd", "b.xls") # {}

\* Entries whose converted file has not been merged and removed yet.
Unmerged(table) == { e \in table : ~e.merged_at }

DistinctNames(table) ==
    \A e1, e2 \in Unmerged(table) :
        e1.lab = e2.lab /\ e1.filename # e2.filename =>
            e1.converted_filename # e2.converted_filename

\* C17: invocations that derive the same base name end with distinct
\* converted filenames, one after another or in the pool: no two entries
\* of distinct source files awaiting the merge share a converted_filename,
\* and the output of an invocation that is over is the file it wrote.
C17_DistinctConvertedNames ==
    /\ DistinctNames(ledger)
    /\ pc = "converting" =>
          \A f \in DOMAIN tasks : tasks[f].st = "done" =>
              /\ tasks[f].name \in DOMAIN intermediate
              /\ intermediate[tasks[f].name] = tasks[f].rows

Inserted == lastCall'.kind = "mark_as_processed"

HadEntry == \E f \in lastCall'.filenames :
               EntriesOf(ledger, lastCall'.lab, f) # {}

\* C18: mark_as_processed for a (lab, filename) that has a ledger entry
\* fails with IntegrityError and leaves the ledger as it was, an insert for
\* a pair without entry adds one, and however the inserts of the workers
\* interleave the ledger never holds two entries of one (lab, filename).
C18_UniqueLabFilename ==
    /\ [](\A e1, e2 \in ledger :
             e1.lab = e2.lab /\ e1.filename = e2.filename => e1 = e2)
    /\ [][Inserted /\ HadEntry =>
             lastCall'.raised = "IntegrityError" /\ ledger' = ledger]_vars
    /\ [][Inserted /\ ~HadEntry =>
             /\ lastCall'.raised = ""
             /\ OneEntryEach(ledger', lastCall'.lab, lastCall'.filenames)]_vars

C18_Witness ==
    /\ lastCall = LedgerCall("mark_as_processed", "nd", {"a.xls"},
                             "IntegrityError")
    /\ EntriesOf(ledger, "nd", "a.xls")
          = { [lab |-> "nd", filename |-> "a.xls",
               converted_filename |-> ConvertedName("nd", 1, 0),
               merged_at |-> FALSE] }
    /\ EntriesOf(ledger, "cornwall", "a.xls") # {}

\* The step is reset_lab for the lab.
ResetOf(lab) == lastCall'.kind = "reset_lab" /\ lastCall'.lab = lab

\* The entry is in the ledger after the step, merged if it was merged.
StillThere(e) ==
    \E x \in ledger' :
        /\ x.lab = e.lab
        /\ x.filename = e.filename
        /\ x.converted_filename = e.converted_filename
        /\ e.merged_at => x.merged_at

UnmergedFiles(table, lab) == { p[1] : p \in get_unmerged_filenames(table, lab) }

\* C30: a step of the ledger other than reset_lab for the lab of an entry
\* keeps the entry, and keeps it merged if it was; so between resets
\* get_processed_filenames of a lab only grows and a file that is
\* processed and no longer unmerged does not become unmerged again; and
\* the two queries leave the ledger as it is.
C30_EntriesStayMerged ==
    /\ [][\A e \in ledger : ~ResetOf(e.lab) => StillThere(e)]_vars
    /\ [][\A lab \in Labs :
             ~ResetOf(lab) =>
                 /\ get_processed_filenames(ledger, lab)
                        \subseteq get_processed_filenames(ledger', lab)
                 /\ \A f \in get_processed_filenames(ledger, lab) :
                        f \notin UnmergedFiles(ledger, lab)
                            => f \notin UnmergedFiles(ledger', lab)]_vars
    /\ [][lastCall'.kind \in {"get_processed_filenames",
                              "get_unmerged_filenames"} =>
             ledger' = ledger]_vars

\* The second lab has just been reset and holds no entry, the first
\* keeps a merged entry and an unmerged one.
C30_Witness ==
    /\ lastCall = LedgerCall("reset_lab", "cornwall", {}, "")
    /\ get_processed_filenames(ledger, "cornwall") = {}
    /\ get_processed_filenames(ledger, "nd") = {"a.xls", "b.xls"}
    /\ UnmergedFiles(ledger, "nd") = {"b.xls"}

Confirmed == run.yes \/ run.answer = "y"

EntriesOfLab(table, lab) == { e \in table : e.lab = lab }

FilesOfLab(files, lab) == { n \in DOMAIN files : n.lab = lab }

\* C19: the reset of a confirmed reimport removes every ledger entry, every
\* converted file and the combined file of the lab, and leaves the ledger
\* entries, the converted files and the combined files of the other labs
\* as they were.
C19_ResetOneLab ==
    [][pc = "reimport" /\ pc' = "called" =>
          /\ EntriesOfLab(ledger', run.lab) = {}
          /\ FilesOfLab(intermediate', run.lab) = {}
          /\ ~combined'[run.lab].exists
          /\ \A l \in Labs \ {run.lab} :
                /\ EntriesOfLab(ledger', l) = EntriesOfLab(ledger, l)
                /\ FilesOfLab(intermediate', l) = FilesOfLab(intermediate, l)
                /\ \A n \in FilesOfLab(intermediate, l) :
                      intermediate'[n] = intermediate[n]
                /\ combined'[l] = combined[l]]_vars

C19_Witness ==
    /\ pc = "called"
    /\ run.reimport
    /\ run.lab = "nd"
    /\ lastCall.kind = "process_files"
    /\ lastCall.lab = "nd"
    /\ lastCall.raised = ""
    /\ EntriesOfLab(ledger, "nd") = {}
    /\ ~combined["nd"].exists
    /\ EntriesOfLab(ledger, "cornwall") # {}
    /\ FilesOfLab(intermediate, "cornwall") # {}

EntryRemoved ==
    \E e \in ledger : EntriesOf(ledger', e.lab, e.filename) = {}

CombinedRemoved == \E l \in Labs : combined[l].exists /\ ~combined'[l].exists

\* C20: a call with reimport that is not confirmed (neither the yes flag
\* nor the answer "y") returns at once, leaving the ledger and the files
\* as they were, with no conversion and no merge; a confirmed one resets
\* and goes on; and no other step of the program, whatever exception it
\* ends with, removes a ledger entry or a combined file.
C20_ConfirmationGated ==
    /\ [][pc = "reimport" /\ ~Confirmed =>
             /\ pc' = "idle"
             /\ lastCall'.raised = ""
             /\ UNCHANGED <<ledger, intermediate, combined>>]_vars
    /\ [][pc = "reimport" /\ Confirmed =>
             pc' = "called" /\ ledger' = reset_lab(ledger, run.lab)]_vars
    /\ [][EntryRemoved \/ CombinedRemoved =>
             pc = "reimport" /\ run.reimport /\ Confirmed]_vars

C20_Witness ==
    /\ pc = "idle"
    /\ lastCall.kind = "reimport declined"
    /\ lastCall.lab = "nd"
    /\ EntriesOfLab(ledger, "nd") # {}
    /\ FilesOfLab(intermediate, "nd") # {}
    /\ combined["nd"].exists

\* C22: between calls, for a lab whose calls have all ended without an
\* exception, the rows of the combined dataset are, month by month, the
\* rows written for the source files whose ledger entries are marked
\* merged: none is lost and none is there twice.
C22_CombinedIsMergedRows ==
    \A l \in Labs :
        pc = "idle" /\ audit.clean[l] => combined[l].rows = audit.merged[l]

C22_Witness ==
    /\ pc = "idle"
    /\ audit.clean["nd"]
    /\ lastCall.kind = "process_files"
    /\ lastCall.lab = "nd"
    /\ lastCall.filenames = {"a.xls", "b.xls"}
    /\ \E e \in ledger : e.filename = "old.xls"
    /\ \A e \in ledger : e.merged_at
    /\ \A f \in {"a.xls", "b.xls"} : EntriesOf(ledger, "nd", f) # {}
    /\ combined["nd"].rows[2] > 5
    /\ combined["nd"].rows[1] > 0
    /\ combined["nd"].rows = audit.merged["nd"]

\* An assert of lines 74-94 does not hold for what the merge of the lab
\* would load: that of lines 75-77 on rows without a month, or that of
\* line 86 on the growth of the final month.
CheckFails(lab) ==
    /\ combined[lab].exists
    /\ \A e \in UnmergedEntries(lab) : e.converted_filename \in DOMAIN intermediate
    /\ \/ combined[lab].before_floor > 0
       \/ /\ Total(combined[lab].rows) > 0
          /\ LET month == LatestMonth(combined[lab].rows)
                 old == combined[lab].rows[month]
             IN ~WithinTolerance(old, old + RowsOfEntries(UnmergedEntries(lab),
                                                         month))

Untouched == UNCHANGED <<combined, ledger, intermediate>>

\* C23: when the integrity check of combine_and_append_csvs fails, the
\* call ends there with the integrity error, and the combined file, the
\* ledger and the converted files are what they were when it began: a
\* call ends with that error only from its first step, before any write,
\* mark or removal.
C23_FailedCheckChangesNothing ==
    /\ [][pc = "merge" /\ CheckFails(run.lab) =>
             /\ pc' = "idle"
             /\ lastCall'.raised = FailedAssertion(run.lab)
             /\ Untouched]_vars
    /\ [][pc # "idle" /\ pc' = "idle"
               /\ lastCall'.raised \in {IntegrityError, NanMonths} =>
             /\ pc = "merge"
             /\ ~written
             /\ CheckFails(run.lab)
             /\ Untouched]_vars

C23_Witness ==
    /\ pc = "idle"
    /\ lastCall.kind = "do_process"
    /\ lastCall.lab = "nd"
    /\ lastCall.raised = IntegrityError
    /\ CheckFails("nd")
    /\ combined["nd"].rows[2] = 5
    /\ Cardinality(UnmergedEntries("nd")) = 2
    /\ \A e \in ledger : e.filename = "old.xls" => e.merged_at

\* C24: a conversion that has put its intermediate file in place ends
\* with exactly one ledger entry for its source file and never with the
\* IntegrityError of the unique index.
C24_OneInsertPerConversion ==
    \A f \in DOMAIN tasks :
        tasks[f].st \in {"returned", "done", "failed"} /\ tasks[f].keys_ok
                /\ Total(tasks[f].rows) > 0 =>
            /\ tasks[f].raised # "IntegrityError"
            /\ Cardinality(EntriesOf(ledger, run.lab, f)) = 1

MergeEnds == InMerge /\ pc' = "idle"

\* A call ends with the exception of a failed conversion while other
\* conversions of the call have succeeded.
PartialFailure ==
    /\ pc = "converting"
    /\ pc' = "idle"
    /\ \E f \in DOMAIN tasks : tasks[f].st = "done"

\* The unmerged entries of a lab after the step.
UnmergedAfter(lab) == { e \in ledger' : e.lab = lab /\ ~e.merged_at }

KeptForLater(lab, f) ==
    \E e \in UnmergedAfter(lab) :
        e.filename = f /\ e.converted_filename \in DOMAIN intermediate'

\* C25 as stated: the files converted in a call where another conversion
\* failed stay unmerged on disk, and the next merge for the lab, which
\* follows conversions that did not fail, leaves no entry of the lab
\* unmerged.
C25_NextMergeTakesAll ==
    /\ [][PartialFailure =>
             \A f \in DOMAIN tasks : tasks[f].st = "done" =>
                 KeptForLater(run.lab, f)]_vars
    /\ [][MergeEnds => UnmergedAfter(run.lab) = {}]_vars

\* C25, amended: the files converted in a call where another conversion
\* failed stay unmerged on disk; a later merge for the lab that returns
\* leaves no entry of the lab unmerged, and one that ends with an
\* exception before its write leaves every unmerged entry as it was.
C25_ReturningMergeTakesAll ==
    /\ [][PartialFailure =>
             \A f \in DOMAIN tasks : tasks[f].st = "done" =>
                 KeptForLater(run.lab, f)]_vars
    /\ [][MergeEnds /\ lastCall'.raised = "" =>
             UnmergedAfter(run.lab) = {}]_vars
    /\ [][MergeEnds /\ lastCall'.raised # "" /\ ~written =>
             /\ UnmergedAfter(run.lab) = UnmergedEntries(run.lab)
             /\ intermediate' = intermediate]_vars

C25_Witness ==
    /\ pc = "idle"
    /\ lastCall.kind = "do_process"
    /\ lastCall.lab = "nd"
    /\ lastCall.raised = ""
    /\ failed["nd"] = {"b.xls"}
    /\ EntriesOf(ledger, "nd", "b.xls") = {}
    /\ \E e \in EntriesOf(ledger, "nd", "a.xls") : e.merged_at
    /\ UnmergedEntries("nd") = {}
    /\ Total(audit.merged["nd"]) > 0
    /\ audit.merged["nd"] = combined["nd"].rows
    /\ ~audit.clean["nd"]

\* The merge of the lab would raise the row count of the final month of
\* its combined file by exactly 20%.
GrowsByExactlyTwentyPercent(lab) ==
    /\ combined[lab].exists
    /\ Total(combined[lab].rows) > 0
    /\ UnmergedEntries(lab) # {}
    /\ \A e \in UnmergedEntries(lab) : e.converted_filename \in DOMAIN intermediate
    /\ LET month == LatestMonth(combined[lab].rows)
       IN 5 * RowsOfEntries(UnmergedEntries(lab), month) = combined[lab].rows[month]

\* C27: a merge that raises the row count of the most recent month of the
\* existing combined dataset by exactly 20% does not end with the
\* integrity error.
C27_ExactlyTwentyPercentPasses ==
    [][pc = "merge" /\ GrowsByExactlyTwentyPercent(run.lab) =>
           ~(pc' = "idle" /\ lastCall'.raised = IntegrityError)]_vars

\* C28: when the existing combined dataset that combine_and_append_csvs
\* loads holds rows whose month is earlier than DATE_FLOOR, these rows are
\* removed and the call goes on to the integrity check and the merge: it
\* does not end on them.
C28_RowsBeforeFloorRemoved ==
    [][pc = "merge" /\ combined[run.lab].exists
              /\ combined[run.lab].before_floor > 0 =>
           ~(pc' = "idle" /\ lastCall'.raised = NanMonths)]_vars

-----------------------------------------------------------------------------
(* Properties of the loop over the raw rows.                               *)

\* The positions in invoked of the calls made for raw row k.
CallsFor(k) == { j \in DOMAIN invoked : invoked[j][1] = k }

\* The raw row passes the four stages.
PassesAll(r) == \A n \in DOMAIN Stages : StageRaises(Stages[n], r) = ""

\* The loop is done with raw row k.
DoneWith(k) == k < row_index \/ (k = row_index /\ loop_pc \notin { Stages[n] : n \in DOMAIN Stages })

\* The calls made for raw row k are consecutive, in the order of Stages
\* from its first, and none follows a call that raised.
StagesInOrder(k) ==
    LET calls == CallsFor(k)
    IN calls # {} =>
          LET first == CHOOSE j \in calls : \A x \in calls : j <= x
              n == Cardinality(calls)
          IN /\ n <= Len(Stages)
             /\ calls = first..(first + n - 1)
             /\ \A j \in calls :
                   /\ invoked[j][2] = Stages[j - first + 1]
                   /\ j < first + n - 1 =>
                          StageRaises(invoked[j][2], raw_rows[k]) = ""

\* Once the loop is done with raw row k, every stage up to the first that
\* raised has been called for it.
StagesComplete(k) ==
    DoneWith(k) =>
        \A n \in DOMAIN Stages :
            (\A m \in 1..(n - 1) : StageRaises(Stages[m], raw_rows[k]) = "")
                => \E j \in CallsFor(k) : invoked[j][2] = Stages[n]

\* C29: the stages are applied to each raw row in the order
\* drop_unwanted_data, normalise_data, skip_old_data, convert_to_result;
\* after a stage has signalled skip no later stage is called for the row
\* and no row is written for it, and the loop goes on with the next raw
\* row; the data rows of the file that is named are the raw rows that
\* passed all four stages, once each and in their order; and what leaves
\* make_intermediate_file is never StopProcessing.
C29_StagesInOrderSkipsContained ==
    /\ \A k \in 1..row_index : StagesInOrder(k) /\ StagesComplete(k)
    /\ \A k \in (row_index + 1)..Len(raw_rows) : CallsFor(k) = {}
    /\ \A n \in DOMAIN outfile :
          /\ outfile[n] \in 1..row_index
          /\ PassesAll(raw_rows[outfile[n]])
          /\ \A m \in DOMAIN outfile : m < n => outfile[m] < outfile[n]
    /\ loop_pc \in {"after loop", "named"} =>
          /\ row_index = Len(raw_rows)
          /\ Len(outfile) =
                Cardinality({ k \in DOMAIN raw_rows : PassesAll(raw_rows[k]) })
    /\ escaped # "StopProcessing"
    /\ loop_pc = "raised" <=> escaped # ""

\* A file is named whose first raw row was old and skipped by
\* skip_old_data and whose second raw row was written.
C29_Witness ==
    /\ loop_pc = "named"
    /\ Len(raw_rows) = 2
    /\ raw_rows[1].drop = "ok"
    /\ raw_rows[1].normalise = "ok"
    /\ raw_rows[1].old
    /\ raw_rows[1].convert = "ok"
    /\ outfile = <<2>>
    /\ invoked = <<<<1, "drop_unwanted_data">>, <<1, "normalise_data">>,
                   <<1, "skip_old_data">>, <<2, "drop_unwanted_data">>,
                   <<2, "normalise_data">>, <<2, "skip_old_data">>,
                   <<2, "convert_to_result">>>>

-----------------------------------------------------------------------------
(* Properties of the classifier.                                           *)

Classified == phase \in {"classified", "reclassified"}

\* The first entry of the list whose test is the row's and whose age band,
\* read as the code reads it, holds the row's age; 0 when there is none.
AgeMatch(r, refs) ==
    LET hits == { i \in 1..Len(refs) :
                    refs[i].test = r.test_code /\ AgeInBand(r.age, refs[i]) }
    IN IF hits = {} THEN 0
       ELSE CHOOSE i \in hits : \A j \in hits : i <= j

LowCell(r, ref_range) ==
    IF r.sex = "M" THEN ref_range.low_M ELSE ref_range.low_F

HighCell(r, ref_range) ==
    IF r.sex = "M" THEN ref_range.high_M ELSE ref_range.high_F

\* A float result matched by age and sex to an entry with both bounds.
MatchedWithBounds ==
    /\ row.test_result.float
    /\ row.sex \in {"M", "F"}
    /\ AgeMatch(row, ranges) # 0
    /\ LowCell(row, ranges[AgeMatch(row, ranges)]) # <<>>
    /\ HighCell(row, ranges[AgeMatch(row, ranges)]) # <<>>

MatchedLow == LowCell(row, ranges[AgeMatch(row, ranges)])[1]
MatchedHigh == HighCell(row, ranges[AgeMatch(row, ranges)])[1]

Above(result, bound) ==
    result.base > bound \/ (result.base = bound /\ result.eps = 1)

Below(result, bound) ==
    result.base < bound \/ (result.base = bound /\ result.eps = -1)

Category(code) == [raised |-> "", result_category |-> <<code>>]

\* C6: every call returns normally with result_category set to one of the
\* nine categories: no exception, no unset or null category.
C6_AlwaysACategory ==
    Classified =>
        /\ outcome.raised = ""
        /\ Len(outcome.result_category) = 1
        /\ outcome.result_category[1] \in ResultCategories

\* C7: with the NO_REF_RANGES cache the call returns what the scan of the
\* list alone (cache disabled) returns, whatever was classified before in
\* the process, rows of other labs included.
C7_CacheIsTransparent ==
    phase = "classified" => outcome = ScanRanges(row, ranges).out

\* C8: a float result within [low, high] of the matched range is
\* WITHIN_RANGE with no direction, with "<" and low = 0, or with ">" and
\* high = 99999, and ERR_INVALID_RANGE_WITH_DIRECTION otherwise.
C8_WithinBoundsByDirection ==
    ( /\ Classified
      /\ MatchedWithBounds
      /\ ~Above(row.test_result, MatchedHigh)
      /\ ~Below(row.test_result, MatchedLow) ) =>
        outcome =
            IF \/ row.direction = ""
               \/ row.direction = "<" /\ MatchedLow = 0
               \/ row.direction = ">" /\ MatchedHigh = 99999
            THEN Category(WITHIN_RANGE)
            ELSE Category(ERR_INVALID_RANGE_WITH_DIRECTION)

\* C9: for a row matched to a range with both bounds, a result above high
\* is OVER_RANGE unless the direction is "<", a result below low is
\* UNDER_RANGE unless the direction is ">", and those two exceptions are
\* ERR_INVALID_RANGE_WITH_DIRECTION; with low 10, high 20 and no direction
\* 15 is WITHIN_RANGE, 25 OVER_RANGE, 5 UNDER_RANGE, and 21 with "<" is
\* ERR_INVALID_RANGE_WITH_DIRECTION.
C9_OutsideBounds ==
    (Classified /\ MatchedWithBounds) =>
        /\ Above(row.test_result, MatchedHigh) =>
               outcome = IF row.direction = "<"
                         THEN Category(ERR_INVALID_RANGE_WITH_DIRECTION)
                         ELSE Category(OVER_RANGE)
        /\ Below(row.test_result, MatchedLow) =>
               outcome = IF row.direction = ">"
                         THEN Category(ERR_INVALID_RANGE_WITH_DIRECTION)
                         ELSE Category(UNDER_RANGE)
        /\ (MatchedLow = 10 /\ MatchedHigh = 20) =>
               /\ (row.direction = "" /\ row.test_result = Float(15, 0))
                      => outcome = Category(WITHIN_RANGE)
               /\ (row.direction = "" /\ row.test_result = Float(25, 0))
                      => outcome = Category(OVER_RANGE)
               /\ (row.direction = "" /\ row.test_result = Float(5, 0))
                      => outcome = Category(UNDER_RANGE)
               /\ (row.direction = "<" /\ row.test_result = Float(21, 0))
                      => outcome = Category(ERR_INVALID_RANGE_WITH_DIRECTION)

\* C9 witness: 21 with direction "<" against low 10, high 20.
C9_Witness ==
    /\ phase = "classified"
    /\ MatchedWithBounds
    /\ MatchedLow = 10 /\ MatchedHigh = 20
    /\ row.direction = "<" /\ row.test_result = Float(21, 0)
    /\ outcome = Category(ERR_INVALID_RANGE_WITH_DIRECTION)

\* C10 as stated: with an entry of the row's test code whose age band
\* holds the row's age, a sex other than M and F gives ERR_INVALID_SEX
\* whatever the result (float or not) and the bounds.
C10_InvalidSexAnyResult ==
    (Classified /\ AgeMatch(row, ranges) # 0 /\ row.sex \notin {"M", "F"})
        => outcome = Category(ERR_INVALID_SEX)

\* C10 amended: the same for a result that is a float; a result that is
\* not a float is ERR_UNPARSEABLE_RESULT before the sex is looked at.
C10_InvalidSexFloatResult ==
    ( /\ Classified
      /\ AgeMatch(row, ranges) # 0
      /\ row.sex \notin {"M", "F"}
      /\ row.test_result.float ) => outcome = Category(ERR_INVALID_SEX)

\* C10 witness: sex "U", a float result, and an age-matched entry whose
\* bounds are incomplete.
C10_Witness ==
    /\ phase = "classified"
    /\ row.sex = "U"
    /\ row.test_result.float
    /\ AgeMatch(row, ranges) # 0
    /\ ranges[AgeMatch(row, ranges)].high_M = <<>>
    /\ outcome = Category(ERR_INVALID_SEX)

\* min_adult_age <= age < max_adult_age on the cells as written.
WithinBand(age, ref_range) ==
    ref_range.min_adult_age <= age /\ age < ref_range.max_adult_age

EntriesOfCode(r, refs) == { i \in 1..Len(refs) : refs[i].test = r.test_code }

BandsHolding(r, refs) ==
    { i \in EntriesOfCode(r, refs) : WithinBand(r.age, refs[i]) }

\* C11: a float result whose test code has entries: when no entry's band
\* holds the age the category is ERR_DISCARDED_AGE; otherwise the first
\* entry whose band holds the age decides, whatever bands precede it.
C11_DiscardedAge ==
    (Classified /\ row.test_result.float /\ EntriesOfCode(row, ranges) # {}) =>
        IF BandsHolding(row, ranges) = {}
        THEN outcome = Category(ERR_DISCARDED_AGE)
        ELSE LET first == CHOOSE i \in BandsHolding(row, ranges) :
                             \A j \in BandsHolding(row, ranges) : i <= j
             IN outcome = MatchedEntry(row, ranges[first])

\* C12: a row whose test code is in no entry of the list is classified
\* ERR_NO_REF_RANGE, whatever its other fields, and from the first such
\* call on NO_REF_RANGES holds the code.
C12_AbsentCode ==
    (Classified /\ EntriesOfCode(row, ranges) = {}) =>
        /\ outcome = Category(ERR_NO_REF_RANGE)
        /\ row.test_code \in NO_REF_RANGES

C12_Witness ==
    /\ phase = "reclassified"
    /\ ranges # <<>>
    /\ EntriesOfCode(row, ranges) = {}
    /\ row.test_result.float
    /\ row.sex = "U"
    /\ outcome = Category(ERR_NO_REF_RANGE)
    /\ NO_REF_RANGES = {row.test_code}

-----------------------------------------------------------------------------
(* Properties of normalise_and_suppress.                                   *)

Suppressed == stage = "done"

\* Rows of a group in the frame that is aggregated.
RowsOfGroup(g) == _normalise_test_codes(codeMapping, mergedFrame)[g]

WrittenGroups ==
    IF processedFile.exists THEN DOMAIN processedFile.rows ELSE {}

WrittenRow(g) == processedFile.rows[g]

RECURSIVE SumOfRows(_)
SumOfRows(S) ==
    IF S = {} THEN 0
    ELSE LET g == CHOOSE x \in S : TRUE
         IN RowsOfGroup(g) + SumOfRows(S \ {g})

\* Rows of the normalised frame in one month.
RowTotal(month) == SumOfRows({ g \in Groups : g.month = month })

MaxRowTotal ==
    CHOOSE t \in { RowTotal(m) : m \in Months } :
        \A m \in Months : RowTotal(m) <= t

InFile(g) == g \in WrittenGroups

\* C14: the months kept by the trim are exactly those whose total row count
\* is at least 5% of the largest monthly total row count: a group of a
\* practice known to practice_codes.csv is in the written file if and only
\* if the rows of its month are no fewer than 5% of the rows of the largest
\* month.
C14_TrimByRowTotals ==
    Suppressed /\ processedFile.exists =>
        \A g \in Groups :
            RowsOfGroup(g) > 0 /\ g.practice_id \in KnownPractices =>
                (InFile(g) <=> 20 * RowTotal(g.month) >= MaxRowTotal)

RECURSIVE FrameRows(_, _)
FrameRows(df, S) ==
    IF S = {} THEN 0
    ELSE LET g == CHOOSE x \in S : TRUE
         IN df[g] + FrameRows(df, S \ {g})

\* Output groups that receive the rows of an input group.
OutputsOf(g) ==
    { h \in Groups :
        /\ [h EXCEPT !.test_code = g.test_code] = g
        /\ \E m \in codeMapping :
              /\ m.datalab_testcode = h.test_code
              /\ \/ m.alias = <<g.test_code>>
                 \/ m.datalab_testcode = g.test_code }

\* C21: with a mapping table that passes the uniqueness check,
\* _normalise_test_codes gives at most one output row per input row: the
\* output has no more rows than the input, and the rows of an input group
\* go to one output group at most.
C21_AtMostOneOutputRow ==
    Suppressed /\ codeMapping # {} =>
        /\ FrameRows(_normalise_test_codes(codeMapping, mergedFrame), Groups)
              <= FrameRows(mergedFrame, Groups)
        /\ \A g \in Groups :
              mergedFrame[g] > 0 => Cardinality(OutputsOf(g)) <= 1

Small(n) == n \in 1..(SUPPRESS_UNDER - 1)

\* Two frames with the same non-empty groups and the same rows in every
\* group, but for groups that hold 1 to 5 rows in both.
SameButSmall(A, B) ==
    \A g \in Groups : A[g] = B[g] \/ (Small(A[g]) /\ Small(B[g]))

\* Frames to compare the frame at hand with: over the same groups, each
\* with the rows it has or, if these are under SUPPRESS_UNDER, with some
\* other number of rows under SUPPRESS_UNDER.
Alternatives ==
    LET S == { g \in Groups : mergedFrame[g] > 0 }
    IN { [g \in Groups |->
            IF Small(mergedFrame[g]) THEN c[g] ELSE mergedFrame[g]] :
           c \in [S -> { n \in RowCounts : Small(n) }] }

\* C26 as stated: two combined datasets with the same non-empty groups,
\* the same rows in every group of 6 rows or more, and 1 to 5 rows in the
\* groups where they differ, give the same written aggregate.
C26_SmallCountsHidden ==
    Suppressed =>
        \A other \in Alternatives :
            SameButSmall(mergedFrame, other) =>
                normalise_and_suppress(codeMapping, other) = processedFile

\* C26, amended: two combined datasets give the same written aggregate
\* when, after the normalisation of the test codes, they have the same
\* non-empty groups, the same rows in every group of 6 rows or more, and
\* 1 to 5 rows in the groups where they differ.
C26_SmallAggregatesHidden ==
    Suppressed =>
        \A other \in Alternatives :
            SameButSmall(_normalise_test_codes(codeMapping, mergedFrame),
                         _normalise_test_codes(codeMapping, other)) =>
                normalise_and_suppress(codeMapping, other) = processedFile

C26_Witness ==
    /\ Suppressed
    /\ processedFile.exists
    /\ \E g \in WrittenGroups : RowsOfGroup(g) = 5
    /\ \E other \in Alternatives :
          /\ other # mergedFrame
          /\ SameButSmall(_normalise_test_codes(codeMapping, mergedFrame),
                          _normalise_test_codes(codeMapping, other))
          /\ \E g \in WrittenGroups :
                _normalise_test_codes(codeMapping, other)[g] = 1
    /\ \E g \in Groups : RowsOfGroup(g) = 120 /\ ~InFile(g)

=============================================================================
